---- MODULE Spec2Model ----
(***************************************************************************)
(* A model of igc2kml.py: the IGC parser (parse_igc), the kinematics       *)
(* processor (process_data), the launch-site classifier                    *)
(* (get_nearest_launch_site_name), the KML renderer (write_kml) and the    *)
(* batch loop of __main__.                                                 *)
(*                                                                         *)
(* Number representation.  TLC has integers only, so the floats of the     *)
(* program are kept in fixed point:                                        *)
(*   - a datetime is its number of seconds since 1970-01-01 00:00:00;      *)
(*   - a latitude/longitude is in thousandths of a minute of arc           *)
(*     (degrees * 60000 + thousandths), which is exact for every value a   *)
(*     B record can encode;                                                *)
(*   - altitudes are whole metres (a B record encodes nothing else);       *)
(*   - planar x/y and distances are whole metres;                          *)
(*   - speed and vario are in hundredths of the display unit.              *)
(* A line of text is a tuple of one-character strings.                     *)
(***************************************************************************)
EXTENDS Integers, Sequences, FiniteSets, TLC

VARIABLES
    file,         \* parse_igc: the lines of the file being read
    consumed,     \* parse_igc: the lines `for line in f` has yielded so far
    date,         \* parse_igc: the local variable `date` (unbound at first)
    data,         \* parse_igc: the local list `data` of decoded B records
    meta_data,    \* the meta-data dictionary
    flight,       \* the FlightData object (None until parse_igc returns)
    units,        \* the Units object
    pc,           \* where the program is
    err,          \* the exception that ended the program ("none" while running)
    args,         \* __main__: the parsed command line
    idx,          \* __main__: position of the batch loop in args.input
    fs,           \* the file system: path -> file content
    f,            \* write_kml: the open file object (its unflushed buffer)
    stdout,       \* what print() has written
    color_in,     \* colour bucketing on its own: value and colour-map configuration
    ind_color,    \* colour bucketing on its own: the index computed
    dist_in,      \* classifier on its own: what get_distance returns per site
    best_name     \* classifier on its own: the name returned

vars == <<file, consumed, date, data, meta_data, flight, units, pc, err, args, idx,
          fs, f, stdout, color_in, ind_color, dist_in, best_name>>

(***************************************************************************)
(* Bounds of the model.                                                    *)
(***************************************************************************)
\* The longest file the line-by-line parser specification reads.
MaxLines == 4
\* The longest list of input files of a batch run.
MaxFiles == 2

None == [none |-> TRUE]

Min(a, b) == IF a < b THEN a ELSE b
Abs(a) == IF a < 0 THEN -a ELSE a

\* Python's int(a / b) on exact values: the quotient truncated toward zero.
TruncDiv(a, b) ==
    IF (a >= 0) = (b > 0) THEN Abs(a) \div Abs(b) ELSE -(Abs(a) \div Abs(b))

\* The quotient rounded to the nearest integer, halves away from zero.
RoundDiv(a, b) ==
    IF (a >= 0) = (b > 0) THEN (2 * Abs(a) + Abs(b)) \div (2 * Abs(b))
    ELSE -((2 * Abs(a) + Abs(b)) \div (2 * Abs(b)))

EARTH_RADIUS == 6371000

(***************************************************************************)
(* Text.                                                                   *)
(***************************************************************************)
Digits == {"0", "1", "2", "3", "4", "5", "6", "7", "8", "9"}
DigitSeq == <<"0", "1", "2", "3", "4", "5", "6", "7", "8", "9">>
DigitVal(c) == (CHOOSE i \in 1..10 : DigitSeq[i] = c) - 1
Whitespace == {" ", "\n"}

\* s[a:b] of Python for 0 <= a <= b.
Slice(s, a, b) == SubSeq(s, a + 1, Min(b, Len(s)))

\* s[a:] of Python.
SliceFrom(s, a) == SubSeq(s, a + 1, Len(s))

\* s.startswith(p)
StartsWith(s, p) == Len(s) >= Len(p) /\ SubSeq(s, 1, Len(p)) = p

\* s.strip(), which int() and float() apply to their argument.
RECURSIVE LStrip(_)
LStrip(s) ==
    IF s # <<>> /\ Head(s) \in Whitespace THEN LStrip(Tail(s)) ELSE s
RECURSIVE RStrip(_)
RStrip(s) ==
    IF s # <<>> /\ s[Len(s)] \in Whitespace
    THEN RStrip(SubSeq(s, 1, Len(s) - 1)) ELSE s
Strip(s) == RStrip(LStrip(s))

RECURSIVE DigitsValue(_)
DigitsValue(s) ==
    IF s = <<>> THEN 0
    ELSE 10 * DigitsValue(SubSeq(s, 1, Len(s) - 1)) + DigitVal(s[Len(s)])

AllDigits(s) == s # <<>> /\ \A i \in 1..Len(s) : s[i] \in Digits

\* int(s) and float(s) for the fixed-width fields of a B record: surrounding
\* white space is ignored, an unsigned run of digits is its value, and
\* anything else raises ValueError.  (The signed, exponent, underscore and
\* nan/inf forms Python also accepts do not occur in the model's lines.)
PyNumber(s) ==
    LET t == Strip(s)
    IN  IF AllDigits(t) THEN [ok |-> TRUE, v |-> DigitsValue(t)]
        ELSE [ok |-> FALSE, v |-> 0]

\* The index (1-based) of the first ch in s, 0 when there is none.
RECURSIVE FindFrom(_, _, _)
FindFrom(s, ch, i) ==
    IF i > Len(s) THEN 0 ELSE IF s[i] = ch THEN i ELSE FindFrom(s, ch, i + 1)
Find(s, ch) == FindFrom(s, ch, 1)

\* The index (1-based) of the last ch in s, 0 when there is none.
RECURSIVE RFindFrom(_, _, _)
RFindFrom(s, ch, i) ==
    IF i < 1 THEN 0 ELSE IF s[i] = ch THEN i ELSE RFindFrom(s, ch, i - 1)
RFind(s, ch) == RFindFrom(s, ch, Len(s))

Pow10(k) == IF k = 0 THEN 1 ELSE IF k = 1 THEN 10 ELSE 100

\* A faulty variant: the offset of the timezone record is read as zero.
HoursToSeconds_Ignored(s) == [ok |-> TRUE, v |-> 0]
\* datetime.timedelta(hours=float(s)) in seconds: an optional sign, digits,
\* and an optional point followed by at most two digits (every such value
\* is a whole number of seconds); anything else raises ValueError.
HoursToSeconds(s) ==
    LET t == Strip(s)
        neg == t # <<>> /\ Head(t) = "-"
        u == IF t # <<>> /\ Head(t) \in {"-", "+"} THEN Tail(t) ELSE t
        p == Find(u, ".")
        ip == IF p = 0 THEN u ELSE SubSeq(u, 1, p - 1)
        fp == IF p = 0 THEN <<>> ELSE SubSeq(u, p + 1, Len(u))
        wellformed ==
            /\ ip \o fp # <<>>
            /\ \A i \in 1..Len(ip) : ip[i] \in Digits
            /\ \A i \in 1..Len(fp) : fp[i] \in Digits
            /\ Len(fp) <= 2
        secs == DigitsValue(ip) * 3600 + (DigitsValue(fp) * 3600) \div Pow10(Len(fp))
    IN  IF wellformed THEN [ok |-> TRUE, v |-> IF neg THEN -secs ELSE secs]
        ELSE [ok |-> FALSE, v |-> 0]

(***************************************************************************)
(* Dates: datetime.datetime.strptime(s, "%d%m%y").                         *)
(***************************************************************************)
IsLeap(y) == (y % 4 = 0 /\ y % 100 # 0) \/ y % 400 = 0

DaysInMonth(y, m) ==
    IF m = 2 THEN (IF IsLeap(y) THEN 29 ELSE 28)
    ELSE IF m \in {4, 6, 9, 11} THEN 30 ELSE 31

\* Days from 1970-01-01 to the civil date y-m-d.
DaysFromCivil(y, m, d) ==
    LET yy == IF m <= 2 THEN y - 1 ELSE y
        era == yy \div 400
        yoe == yy - era * 400
        mp == IF m > 2 THEN m - 3 ELSE m + 9
        doy == (153 * mp + 2) \div 5 + d - 1
        doe == yoe * 365 + yoe \div 4 - yoe \div 100 + doy
    IN  era * 146097 + doe - 719468

SecondsPerDay == 24 * 60 * 60

\* strptime(s, "%d%m%y"): midnight of the date, or ValueError.  %y maps
\* 69..99 to 1969..1999 and 00..68 to 2000..2068.
strptime(s) ==
    IF ~(Len(s) = 6 /\ AllDigits(s)) THEN [ok |-> FALSE, v |-> 0]
    ELSE LET d == DigitsValue(SubSeq(s, 1, 2))
             m == DigitsValue(SubSeq(s, 3, 4))
             y2 == DigitsValue(SubSeq(s, 5, 6))
             y == IF y2 >= 69 THEN 1900 + y2 ELSE 2000 + y2
         IN  IF m \in 1..12 /\ d >= 1 /\ d <= DaysInMonth(y, m)
             THEN [ok |-> TRUE, v |-> DaysFromCivil(y, m, d) * SecondsPerDay]
             ELSE [ok |-> FALSE, v |-> 0]

(***************************************************************************)
(* The lines of text the model's input files are made of.                  *)
(***************************************************************************)
LineDate1 ==
    <<"H","F","D","T","E","0","1","0","6","2","1","\n">>
LineDate2 ==
    <<"H","F","D","T","E","0","2","0","6","2","1","\n">>
LineBadDate ==
    <<"H","F","D","T","E","3","1","0","2","2","1","\n">>
LineTZ ==
    <<"H","F","T","Z","N","T","I","M","E","Z","O","N","E",":","2",".","5","\n">>
LineTZNeg ==
    <<"H","F","T","Z","N","T","I","M","E","Z","O","N","E",":","-","1","\n">>
LinePilot ==
    <<"H","F","P","L","T","P","I","L","O","T",":","J",":","D","\n">>
LineA ==
    <<"A","X","C","T",":","S","7","\n">>
LineBlank ==
    <<"\n">>
LineOther ==
    <<"L","X","C","T","\n">>
LineFix1 ==
    <<"B","1","0","0","0","0","0","4","7","3","7","3","3","5","N","0","1","5","5","1","4","5","0","E","A","0","1","4","8","0","0","1","5","0","0","\n">>
LineFix2 ==
    <<"B","1","0","0","0","1","0","4","7","3","7","3","3","5","N","0","1","5","5","2","2","5","0","E","A","0","1","4","9","0","0","1","5","2","0","\n">>
LineFix3 ==
    <<"B","1","0","0","0","1","0","4","7","3","7","4","0","0","N","0","1","5","5","2","2","5","0","E","A","0","1","4","9","0","0","1","5","2","0","\n">>
LineFixBad ==
    <<"B","1","0","0","0","2","0","4","7","3","7","X","3","5","N","0","1","5","5","1","4","5","0","E","A","0","1","4","8","0","0","1","5","0","0","\n">>
LineFixShort ==
    <<"B","1","0","0","0","3","0","\n">>
LineFixSW ==
    <<"B","1","2","0","0","0","0","0","0","0","0","1","0","0","S","0","0","0","0","0","1","0","0","W","V","0","0","0","1","0","0","0","0","2","0","\n">>
LineFixNE ==
    <<"B","1","2","0","0","0","5","0","0","0","0","1","0","0","N","0","0","0","0","0","1","0","0","E","A","0","0","0","1","0","0","0","0","1","0","\n">>

\* A line of a file is kept in the state by its name.
LineText(id) ==
    CASE id = "Date1" -> LineDate1
      [] id = "Date2" -> LineDate2
      [] id = "BadDate" -> LineBadDate
      [] id = "TZ" -> LineTZ
      [] id = "TZNeg" -> LineTZNeg
      [] id = "Pilot" -> LinePilot
      [] id = "A" -> LineA
      [] id = "Blank" -> LineBlank
      [] id = "Other" -> LineOther
      [] id = "Fix1" -> LineFix1
      [] id = "Fix2" -> LineFix2
      [] id = "Fix3" -> LineFix3
      [] id = "FixBad" -> LineFixBad
      [] id = "FixShort" -> LineFixShort
      [] id = "FixSW" -> LineFixSW
      [] id = "FixNE" -> LineFixNE

(***************************************************************************)
(* The parser.                                                             *)
(***************************************************************************)
Raise(e) == [err |-> e, row |-> <<>>]

\* _parse_B_record(line, date), date a bound datetime.  The fields are
\* decoded in the order of the source, so the first failure is the one
\* raised: ValueError from int()/float(), IndexError from line[14],
\* line[23] and line[24] on a short line.
parse_B_record(line, d) ==
    LET hh == PyNumber(Slice(line, 1, 3))
        mm == PyNumber(Slice(line, 3, 5))
        ss == PyNumber(Slice(line, 5, 7))
        latd == PyNumber(Slice(line, 7, 9))
        latf == PyNumber(Slice(line, 9, 14))
        lond == PyNumber(Slice(line, 15, 18))
        lonf == PyNumber(Slice(line, 18, 23))
        baro == PyNumber(Slice(line, 25, 30))
        gps == PyNumber(Slice(line, 30, 35))
        t == d + hh.v * 3600 + mm.v * 60 + ss.v
        lat0 == latd.v * 60000 + latf.v
        lat == IF line[15] = "S" THEN -lat0 ELSE lat0
        lon0 == lond.v * 60000 + lonf.v
        lon == IF line[24] = "W" THEN -lon0 ELSE lon0
        is_3D_fix == line[25] = "A"
    IN  IF ~(hh.ok /\ mm.ok /\ ss.ok) THEN Raise("ValueError")
        ELSE IF ~(latd.ok /\ latf.ok) THEN Raise("ValueError")
        ELSE IF Len(line) <= 14 THEN Raise("IndexError")
        ELSE IF ~(lond.ok /\ lonf.ok) THEN Raise("ValueError")
        ELSE IF Len(line) <= 24 THEN Raise("IndexError")
        ELSE IF ~(baro.ok /\ gps.ok) THEN Raise("ValueError")
        ELSE [err |-> "none", row |-> <<t, lat, lon, is_3D_fix, baro.v, gps.v>>]

\* _parse_H_record(line): the text before the first colon, and the rest.
parse_H_record(line) ==
    LET p == Find(line, ":")
    IN  IF p = 0 THEN <<line, <<>>>>
        ELSE <<SubSeq(line, 1, p - 1), SubSeq(line, p + 1, Len(line))>>

\* line.split(':')[-1]
AfterLastColon(line) == SubSeq(line, RFind(line, ":") + 1, Len(line))

\* A local variable that may be unbound, a dictionary key that may be absent.
Unbound == [bound |-> FALSE]
Bound(v) == [bound |-> TRUE, v |-> v]

\* A faulty variant: `date` starts at a default datetime instead of unassigned.
InitialDate_Epoch == Bound(0)

\* parse_igc before its loop: `date` is not assigned.
InitialDate == Unbound

EmptyMeta ==
    [date |-> Unbound, serial_nr |-> Unbound, headers |-> <<>>,
     launch_site |-> Unbound, units |-> Unbound, pilot |-> Unbound]

\* meta_data[key] = value for a key read from an H record.
SetHeader(h, key, value) ==
    [k \in DOMAIN h \cup {key} |-> IF k = key THEN value ELSE h[k]]

HFDTE == <<"H","F","D","T","E">>
HFTZNTIMEZONE == <<"H","F","T","Z","N","T","I","M","E","Z","O","N","E">>

\* The state of parse_igc's loop, and one turn of it on `line`.
ParseStart ==
    [date |-> InitialDate, meta_data |-> EmptyMeta, data |-> <<>>, err |-> "none"]

ParseLine(st, line) ==
    IF Len(line) = 0 THEN st
    ELSE IF line[1] = "B" THEN
        IF ~st.date.bound THEN [st EXCEPT !.err = "UnboundLocalError"]
        ELSE LET r == parse_B_record(line, st.date.v)
             IN  IF r.err # "none" THEN [st EXCEPT !.err = r.err]
                 ELSE [st EXCEPT !.data = Append(@, r.row)]
    ELSE IF StartsWith(line, HFDTE) THEN
        LET d == strptime(Slice(line, 5, 11))
        IN  IF ~d.ok THEN [st EXCEPT !.err = "ValueError"]
            ELSE [st EXCEPT !.date = Bound(d.v), !.meta_data.date = Bound(d.v)]
    ELSE IF StartsWith(line, HFTZNTIMEZONE) THEN
        LET h == HoursToSeconds(SliceFrom(line, 14))
        IN  IF ~st.date.bound THEN [st EXCEPT !.err = "UnboundLocalError"]
            ELSE IF ~h.ok THEN [st EXCEPT !.err = "ValueError"]
            ELSE [st EXCEPT !.date = Bound(@.v + h.v)]
    ELSE IF line[1] = "H" THEN
        LET kv == parse_H_record(line)
        IN  [st EXCEPT !.meta_data.headers = SetHeader(@, kv[1], kv[2])]
    ELSE IF line[1] = "A" THEN
        [st EXCEPT !.meta_data.serial_nr = Bound(AfterLastColon(line))]
    ELSE st

\* The column of index k of the rows: what zip(*data) yields.
Column(rows, k) == [i \in 1..Len(rows) |-> rows[i][k]]

\* FlightData(t=t, lat=lat, lon=lon, alt=alt_gps); the derived fields are None.
FlightData(rows) ==
    [t |-> Column(rows, 1), lat |-> Column(rows, 2), lon |-> Column(rows, 3),
     alt |-> Column(rows, 6), vario |-> None, x |-> None, y |-> None,
     speed |-> None]

n_samples(fd) == Len(fd.t)

\* parse_igc after its loop: zip(*data) of no rows unpacks into nothing, and
\* the six-name assignment raises ValueError.
ParseEnd(st) ==
    IF st.data = <<>> THEN [err |-> "ValueError", flight |-> None, meta_data |-> st.meta_data]
    ELSE [err |-> "none", flight |-> FlightData(st.data), meta_data |-> st.meta_data]

\* The loop of parse_igc over the lines of a file, ended by the first error.
RECURSIVE ParseLoop(_, _)
ParseLoop(st, ids) ==
    IF ids = <<>> \/ st.err # "none" THEN st
    ELSE ParseLoop(ParseLine(st, LineText(Head(ids))), Tail(ids))

\* parse_igc(fname) for a file holding the lines `ids`.
parse_igc(ids) ==
    LET st == ParseLoop(ParseStart, ids)
    IN  IF st.err # "none"
        THEN [err |-> st.err, flight |-> None, meta_data |-> st.meta_data]
        ELSE ParseEnd(st)

(***************************************************************************)
(* The launch-site classifier.                                             *)
(***************************************************************************)
\* LAUNCH_SITES, in the iteration order of the dictionary.
LAUNCH_SITES == <<"Sonnwendstein", "Hohe Wand", "Invermere", "York Soaring">>

\* best_distance before the loop: 10e3.
SiteThreshold == 10000

\* get_distance(lat, lon, lat_site, lon_site) in whole metres, at the
\* coordinates of the model's fixes: math.acos, math.sin and math.cos are
\* tabulated, not computed.
get_distance(lat, lon, site) ==
    LET row ==
          CASE lat = 2857335 /\ lon = 951450 -> <<12, 26795, 8171575, 6974275>>
            [] lat = 2857335 /\ lon = 952250 -> <<999, 26298, 8172069, 6975081>>
            [] lat = 2857400 /\ lon = 952250 -> <<1005, 26193, 8171964, 6975010>>
            [] lat = -100 /\ lon = -100 -> <<5513450, 5539850, 11807465, 9242525>>
            [] lat = 100 /\ lon = 100 -> <<5513001, 5539400, 11807388, 9242532>>
    IN  row[CHOOSE k \in 1..Len(LAUNCH_SITES) : LAUNCH_SITES[k] = site]

\* The loop of get_nearest_launch_site_name over the sites from index k on,
\* d[site] being the distance get_distance returns for the site.
RECURSIVE NearestLoop(_, _, _, _)
NearestLoop(d, k, best_distance, best) ==
    IF k > Len(LAUNCH_SITES) THEN best
    ELSE IF d[LAUNCH_SITES[k]] < best_distance
         THEN NearestLoop(d, k + 1, d[LAUNCH_SITES[k]], LAUNCH_SITES[k])
         ELSE NearestLoop(d, k + 1, best_distance, best)

\* A faulty variant: `<=` for `<`, so the last of several nearest sites wins.
RECURSIVE NearestLoop_LastWins(_, _, _, _)
NearestLoop_LastWins(d, k, best_distance, best) ==
    IF k > Len(LAUNCH_SITES) THEN best
    ELSE IF d[LAUNCH_SITES[k]] <= best_distance
         THEN NearestLoop_LastWins(d, k + 1, d[LAUNCH_SITES[k]], LAUNCH_SITES[k])
         ELSE NearestLoop_LastWins(d, k + 1, best_distance, best)
NearestByDistance_LastWins(d) == NearestLoop_LastWins(d, 1, SiteThreshold, "Unknown")

NearestByDistance(d) == NearestLoop(d, 1, SiteThreshold, "Unknown")

get_nearest_launch_site_name(lat, lon) ==
    NearestByDistance([s \in {LAUNCH_SITES[k] : k \in 1..Len(LAUNCH_SITES)} |->
                          get_distance(lat, lon, s)])

(***************************************************************************)
(* The kinematics processor.                                               *)
(***************************************************************************)
\* EARTH_RADIUS * cos(lat) * cos(lon) and EARTH_RADIUS * cos(lat) * sin(lon)
\* in whole metres, tabulated at the coordinates of the model's fixes.
PlanarXY(lat, lon) ==
    CASE lat = 2857335 /\ lon = 951450 -> <<4130736, 1173359>>
      [] lat = 2857335 /\ lon = 952250 -> <<4130463, 1174320>>
      [] lat = 2857400 /\ lon = 952250 -> <<4130377, 1174296>>
      [] lat = -100 /\ lon = -100 -> <<EARTH_RADIUS, -185>>
      [] lat = 100 /\ lon = 100 -> <<EARTH_RADIUS, 185>>

\* math.sqrt, to the whole metre below.
RECURSIVE SqrtBetween(_, _, _)
SqrtBetween(n, lo, hi) ==
    IF lo >= hi THEN lo
    ELSE LET mid == (lo + hi + 1) \div 2
         IN  IF mid * mid <= n THEN SqrtBetween(n, mid, hi)
             ELSE SqrtBetween(n, lo, mid - 1)
Sqrt(n) == SqrtBetween(n, 0, 46340)

\* get_conversion_factor(unit): the factor as the source writes it, and in
\* hundredths for the fixed-point arithmetic; ValueError for any other token.
Factor(lit, centi) == [ok |-> TRUE, lit |-> lit, centi |-> centi]

\* A faulty variant: an unknown token falls through to the factor 1.0.
get_conversion_factor_Default(unit) ==
    IF unit \in {"kts", "knots"} THEN Factor("1.9438444924406", 194)
    ELSE IF unit \in {"mph", "miles/h"} THEN Factor("2.2369362920544", 224)
    ELSE IF unit \in {"kmh", "km/h"} THEN Factor("3.6", 360)
    ELSE IF unit \in {"fpm", "f/m"} THEN Factor("196.85039370078738", 19685)
    ELSE IF unit \in {"feet"} THEN Factor("3.280839895013123", 328)
    ELSE Factor("1.0", 100)
get_conversion_factor(unit) ==
    IF unit \in {"kts", "knots"} THEN Factor("1.9438444924406", 194)
    ELSE IF unit \in {"mph", "miles/h"} THEN Factor("2.2369362920544", 224)
    ELSE IF unit \in {"kmh", "km/h"} THEN Factor("3.6", 360)
    ELSE IF unit \in {"fpm", "f/m"} THEN Factor("196.85039370078738", 19685)
    ELSE IF unit \in {"feet"} THEN Factor("3.280839895013123", 328)
    ELSE IF unit \in {"m/s", "mps", "m", "metres", "meters"} THEN Factor("1.0", 100)
    ELSE [ok |-> FALSE, lit |-> "", centi |-> 0]

\* (data.t[i+1] - data.t[i]).seconds: the seconds field of a timedelta is
\* always in 0..86399, the days being kept apart.
TimedeltaSeconds(t1, t2) == (t2 - t1) % SecondsPerDay

\* factor * delta / (dt + 0.001), in hundredths of the display unit.
Rate(centi, delta, dt) == RoundDiv(centi * delta * 1000, dt * 1000 + 1)

\* A faulty variant: the last entry is not appended.
PadLast_Missing(s, last) == s

\* [...] + [last]: the differences of the n - 1 pairs, and a last entry.
PadLast(s, last) == Append(s, last)

\* zip(a, b) stops at the shorter of the two.
ZipLen(a, b) == Min(Len(a), Len(b))

\* process_data(data, meta_data, units).  The three factors are looked up
\* in the order x, y, alt, each stored before the next is looked up; the
\* first unknown token raises ValueError and nothing after it happens.
process_data(fd, md, un) ==
    LET n == n_samples(fd)
        xy == [i \in 1..n |-> PlanarXY(fd.lat[i], fd.lon[i])]
        x == [i \in 1..n |-> xy[i][1]]
        y == [i \in 1..n |-> xy[i][2]]
        timedelta == PadLast([i \in 1..(n - 1) |->
                                 TimedeltaSeconds(fd.t[i], fd.t[i + 1])], 1)
        distance_delta == PadLast([i \in 1..(n - 1) |->
                                 Sqrt((x[i + 1] - x[i]) * (x[i + 1] - x[i])
                                      + (y[i + 1] - y[i]) * (y[i + 1] - y[i]))], 0)
        vario_delta == PadLast([i \in 1..(n - 1) |-> fd.alt[i + 1] - fd.alt[i]], 0)
        fx == get_conversion_factor(un.x)
        fy == get_conversion_factor(un.y)
        fa == get_conversion_factor(un.alt)
        u1 == [un EXCEPT !.xfactor = fx]
        u2 == [u1 EXCEPT !.yfactor = fy]
        u3 == [u2 EXCEPT !.altfactor = fa]
        fd1 == [fd EXCEPT !.x = x, !.y = y]
        fd2 == [fd1 EXCEPT
                  !.speed = [i \in 1..ZipLen(distance_delta, timedelta) |->
                                Rate(fx.centi, distance_delta[i], timedelta[i])],
                  !.vario = [i \in 1..ZipLen(vario_delta, timedelta) |->
                                Rate(fy.centi, vario_delta[i], timedelta[i])]]
        site_name == get_nearest_launch_site_name(fd.lat[1], fd.lon[1])
    IN  IF ~fx.ok THEN [err |-> "ValueError", flight |-> fd1, meta_data |-> md, units |-> un]
        ELSE IF ~fy.ok THEN [err |-> "ValueError", flight |-> fd1, meta_data |-> md, units |-> u1]
        ELSE IF ~fa.ok THEN [err |-> "ValueError", flight |-> fd1, meta_data |-> md, units |-> u2]
        ELSE [err |-> "none", flight |-> fd2,
              meta_data |-> [md EXCEPT !.launch_site = Bound(site_name),
                                       !.units = Bound(u3)],
              units |-> u3]

\* units = Units(); units.x, units.y, units.alt from the command line.
Units(x, y, alt) ==
    [x |-> x, y |-> y, alt |-> alt,
     xfactor |-> None, yfactor |-> None, altfactor |-> None]

(***************************************************************************)
(* Exceptions: the type raised and the function it was raised in.          *)
(***************************************************************************)
NoError == [type |-> "none", in |-> ""]
Error(type, in) == [type |-> type, in |-> in]

(***************************************************************************)
(* The renderer.  The document is kept as the sequence of the pieces       *)
(* write_kml writes, one per helper it calls, each piece holding what the  *)
(* f.write calls of that helper put in it.                                 *)
(***************************************************************************)
\* f'{v:.6f}' of a latitude or longitude: millionths of a degree.
Micro(v) == RoundDiv(v * 50, 3)

\* f'{data.lon[i]:.6f},{data.lat[i]:.6f},{data.alt[i]:.0f}', i counted from 1.
Coordinate(fd, i) == <<Micro(fd.lon[i]), Micro(fd.lat[i]), fd.alt[i]>>

\* A faulty variant: the + 0.5 is missing, so the index is rounded down.
ColorIndex_Floor(v, cmin, cmax, n_colors) ==
    LET raw == (n_colors * (v - 100 * cmin)) \div (100 * (cmax - cmin))
    IN  IF raw >= n_colors THEN n_colors - 1 ELSE IF raw < 0 THEN 0 ELSE raw

\* ind_color of _write_kml_timeseries for the value v (in hundredths):
\* int(n_colors * (v - cmin) / (cmax - cmin) + 0.5), then the two clamps.
ColorIndex(v, cmin, cmax, n_colors) ==
    LET raw == TruncDiv(2 * n_colors * (v - 100 * cmin) + 100 * (cmax - cmin),
                        200 * (cmax - cmin))
    IN  IF raw >= n_colors THEN n_colors - 1 ELSE IF raw < 0 THEN 0 ELSE raw

\* data.t[i].hour, .minute, .second
TimeOfDay(t) ==
    LET s == t % SecondsPerDay
    IN  <<s \div 3600, (s % 3600) \div 60, s % 60>>

\* f'{v:.0f}' of a value kept in hundredths.
Fmt0(centi) == RoundDiv(centi, 100)

\* _write_kml_timeseries: one Placemark per pair of consecutive samples.
write_kml_timeseries(fd, color_data, color_map_name, cmin, cmax, n_colors, un, name, postfix) ==
    [tag |-> "Folder",
     name |-> name,
     placemarks |->
        [i \in 1..(n_samples(fd) - 1) |->
            [styleUrl |-> <<color_map_name, ColorIndex(color_data[i], cmin, cmax, n_colors)>>,
             name |-> <<TimeOfDay(fd.t[i]), Fmt0(fd.alt[i] * un.altfactor.centi), un.alt,
                        Fmt0(color_data[i]), postfix>>,
             coordinates |-> <<Coordinate(fd, i), Coordinate(fd, i + 1)>>]]]

\* _write_kml_path: the coordinates of `for i in range(data.n_samples - 1)`.
write_kml_path(fd) ==
    [tag |-> "Path",
     styleUrl |-> "polyline",
     coordinates |-> [i \in 1..(n_samples(fd) - 1) |-> Coordinate(fd, i)]]

\* color_maps of write_kml: one map, rdgn9, of nine colours.
ColorMapSize == 9

\* _write_kml_colormap: a Style per colour of the map, and the polyline style.
write_kml_colormap(name, n) ==
    [tag |-> "Styles", ids |-> [i \in 1..n |-> <<name, i - 1>>] \o <<<<"polyline", 0>>>>]

\* The <name> of the document: the launch site, the pilot if there is one,
\* the date if there is one.
DocumentName(md) ==
    [tag |-> "Name",
     launch_site |-> IF md.launch_site.bound THEN md.launch_site.v ELSE "Unknown",
     pilot |-> md.pilot,
     date |-> md.date]

\* Everything write_kml writes, in order.
Document(fd, md) ==
    LET un == md.units.v
    IN  << [tag |-> "Preamble"],
           write_kml_colormap("rdgn9", ColorMapSize),
           DocumentName(md),
           write_kml_timeseries(fd, fd.vario, "rdgn9", -4, 4, ColorMapSize, un,
                                <<"Vario", un.y>>, un.y),
           write_kml_timeseries(fd, fd.speed, "rdgn9", 0, 60, ColorMapSize, un,
                                <<"Speed", un.x>>, un.x),
           [tag |-> "FolderEnd"],
           write_kml_path(fd),
           [tag |-> "Closing"] >>

(***************************************************************************)
(* The batch loop of __main__.                                             *)
(***************************************************************************)
\* The input files of the model, by name.
FileNames == {"two", "three", "south", "one", "early", "empty", "garbled"}

FileLines(name) ==
    CASE name = "two" -> <<"Date1", "Pilot", "Fix1", "Fix2">>
      [] name = "three" -> <<"A", "Date1", "TZ", "Fix1", "Fix2", "Fix3">>
      [] name = "south" -> <<"Date2", "TZNeg", "Other", "FixSW", "FixNE">>
      [] name = "one" -> <<"Date1", "Blank", "Fix1">>
      [] name = "early" -> <<"Fix1", "Date1", "Fix2">>
      [] name = "empty" -> <<"Date1", "Pilot">>
      [] name = "garbled" -> <<"Date1", "Fix1", "FixShort">>

\* The unit selections of the model.  The last two hold a token that
\* get_conversion_factor does not know.
UnitSelections ==
    { <<"kmh", "m/s", "m">>, <<"kts", "fpm", "feet">>,
      <<"furlongs", "m/s", "m">>, <<"kmh", "m/s", "cubits">> }

InputLists ==
    UNION {[1..k -> FileNames] : k \in 1..MaxFiles}

\* The name of the output file: args.output, or the first timestamp to the
\* minute and the launch site.
OutputName(a, fd, md) ==
    IF a.output.bound THEN <<0, a.output.v>>
    ELSE <<fd.t[1] \div 60, md.launch_site.v>>

\* The names the files of a batch can be written to.
PossibleOutputs(a) ==
    IF a.output.bound THEN {<<0, a.output.v>>}
    ELSE {<<r.flight.t[1] \div 60,
            get_nearest_launch_site_name(r.flight.lat[1], r.flight.lon[1])>> :
            r \in {q \in {parse_igc(FileLines(a.input[i])) : i \in 1..Len(a.input)} :
                      q.err = "none"}}

\* A file that was there before the run.
OldFile == [owner |-> 0, chunks |-> <<[tag |-> "Old"]>>]

\* A faulty variant: the `not` of `not args.force` is missing.
GuardBlocks_Inverted(exists, force) == exists /\ force

\* os.path.isfile(output_name) and not args.force
GuardBlocks(exists, force) == exists /\ ~force

Init ==
    /\ args \in [input : InputLists,
                 output : {Unbound, Bound("out.kml")},
                 force : BOOLEAN,
                 pilot : {Unbound, Bound("Jane")},
                 units : UnitSelections]
    /\ units = Units(args.units[1], args.units[2], args.units[3])
    /\ \E present \in SUBSET PossibleOutputs(args) : fs = [p \in present |-> OldFile]
    /\ idx = 1
    /\ pc = "parse"
    /\ err = NoError
    /\ file = <<>> /\ consumed = <<>> /\ date = Unbound /\ data = <<>>
    /\ meta_data = EmptyMeta
    /\ flight = None
    /\ f = None
    /\ stdout = <<>>
    /\ color_in = None /\ ind_color = 0 /\ dist_in = None /\ best_name = ""

\* data, meta_data = parse_igc(input_fname)
ParseFile ==
    /\ pc = "parse"
    /\ idx <= Len(args.input)
    /\ LET r == parse_igc(FileLines(args.input[idx]))
       IN  /\ flight' = r.flight
           /\ meta_data' = r.meta_data
           /\ pc' = IF r.err = "none" THEN "process" ELSE "aborted"
           /\ err' = IF r.err = "none" THEN NoError ELSE Error(r.err, "parse_igc")
    /\ UNCHANGED <<file, consumed, date, data, units, args, idx, fs, f, stdout, color_in,
                   ind_color, dist_in, best_name>>

\* data, meta_data = process_data(data, meta_data, units); then the pilot.
ProcessFile ==
    /\ pc = "process"
    /\ LET r == process_data(flight, meta_data, units)
       IN  /\ flight' = r.flight
           /\ units' = r.units
           /\ meta_data' = IF r.err = "none"
                           THEN [r.meta_data EXCEPT !.pilot = args.pilot]
                           ELSE r.meta_data
           /\ pc' = IF r.err = "none" THEN "guard" ELSE "aborted"
           /\ err' = IF r.err = "none" THEN NoError ELSE Error(r.err, "process_data")
    /\ UNCHANGED <<file, consumed, date, data, args, idx, fs, f, stdout, color_in,
                   ind_color, dist_in, best_name>>

\* The output exists and --force was not given: a message, and the next file.
SkipExisting ==
    /\ pc = "guard"
    /\ LET output_name == OutputName(args, flight, meta_data)
       IN  /\ GuardBlocks(output_name \in DOMAIN fs, args.force)
           /\ stdout' = Append(stdout, <<"Can not save kml file", output_name>>)
    /\ idx' = idx + 1
    /\ pc' = "parse"
    /\ UNCHANGED <<file, consumed, date, data, meta_data, flight, units, err, args, fs, f,
                   color_in, ind_color, dist_in, best_name>>

\* write_kml: open(fname, 'w') creates the file, or empties the one there.
OpenOutput ==
    /\ pc = "guard"
    /\ LET output_name == OutputName(args, flight, meta_data)
       IN  /\ ~GuardBlocks(output_name \in DOMAIN fs, args.force)
           /\ fs' = [p \in DOMAIN fs \cup {output_name} |->
                        IF p = output_name THEN [owner |-> idx, chunks |-> <<>>]
                        ELSE fs[p]]
           /\ f' = [name |-> output_name, buffer |-> <<>>, written |-> 0]
    /\ pc' = "writing"
    /\ UNCHANGED <<file, consumed, date, data, meta_data, flight, units, err, args, idx,
                   stdout, color_in, ind_color, dist_in, best_name>>

\* The buffer of f goes to the file.
Flushed == [fs EXCEPT ![f.name].chunks = @ \o f.buffer]

\* The next piece of the document is written into the buffer of f.
WritePiece ==
    /\ pc = "writing"
    /\ f.written < Len(Document(flight, meta_data))
    /\ f' = [f EXCEPT !.buffer = Append(@, Document(flight, meta_data)[f.written + 1]),
                      !.written = @ + 1]
    /\ UNCHANGED <<file, consumed, date, data, meta_data, flight, units, pc, err, args, idx,
                   fs, stdout, color_in, ind_color, dist_in, best_name>>

\* The buffer of f is full and is written out.
FlushBuffer ==
    /\ pc = "writing"
    /\ f.buffer # <<>>
    /\ f.written < Len(Document(flight, meta_data))
    /\ fs' = Flushed
    /\ f' = [f EXCEPT !.buffer = <<>>]
    /\ UNCHANGED <<file, consumed, date, data, meta_data, flight, units, pc, err, args, idx,
                   stdout, color_in, ind_color, dist_in, best_name>>

\* The end of the `with` block: f is closed, and the loop goes on.
CloseOutput ==
    /\ pc = "writing"
    /\ f.written = Len(Document(flight, meta_data))
    /\ fs' = Flushed
    /\ f' = None
    /\ idx' = idx + 1
    /\ pc' = "parse"
    /\ UNCHANGED <<file, consumed, date, data, meta_data, flight, units, err, args, stdout,
                   color_in, ind_color, dist_in, best_name>>

\* An f.write raises OSError (the disk is full, the device fails): the
\* `with` block closes f, which writes out what the buffer holds, and the
\* exception ends the program.
WriteFails ==
    /\ pc = "writing"
    /\ f.written < Len(Document(flight, meta_data))
    /\ fs' = Flushed
    /\ f' = None
    /\ pc' = "aborted"
    /\ err' = Error("OSError", "write_kml")
    /\ UNCHANGED <<file, consumed, date, data, meta_data, flight, units, args, idx, stdout,
                   color_in, ind_color, dist_in, best_name>>

\* The loop is over.
Finish ==
    /\ pc = "parse"
    /\ idx > Len(args.input)
    /\ pc' = "done"
    /\ UNCHANGED <<file, consumed, date, data, meta_data, flight, units, err, args, idx, fs,
                   f, stdout, color_in, ind_color, dist_in, best_name>>

Next ==
    \/ ParseFile \/ ProcessFile \/ SkipExisting \/ OpenOutput \/ WritePiece
    \/ FlushBuffer \/ CloseOutput \/ WriteFails \/ Finish

Spec == Init /\ [][Next]_vars

(***************************************************************************)
(* parse_igc line by line, followed by process_data, on any file of at     *)
(* most MaxLines lines drawn from ParseAlphabet.                           *)
(***************************************************************************)
ParseAlphabet ==
    {"Date1", "Date2", "BadDate", "TZ", "Fix1", "Fix2", "FixBad", "Pilot", "A", "Blank"}

UnitChoices ==
    {Units("kmh", "m/s", "m"), Units("kts", "fpm", "feet"), Units("mph", "kmh", "metres")}

Idle ==
    /\ args = None /\ idx = 0 /\ fs = <<>> /\ f = None /\ stdout = <<>>
    /\ color_in = None /\ ind_color = 0 /\ dist_in = None /\ best_name = ""

InitParse ==
    /\ file \in UNION {[1..k -> ParseAlphabet] : k \in 0..MaxLines}
    /\ consumed = <<>>
    /\ date = ParseStart.date
    /\ data = ParseStart.data
    /\ meta_data = ParseStart.meta_data
    /\ flight = None
    /\ units = None
    /\ pc = "reading"
    /\ err = NoError
    /\ Idle

\* `for line in f`: the next line of the file, and the loop's body on it.
ReadLine ==
    /\ pc = "reading"
    /\ Len(consumed) < Len(file)
    /\ LET id == file[Len(consumed) + 1]
           st == ParseLine([date |-> date, meta_data |-> meta_data,
                            data |-> data, err |-> "none"], LineText(id))
       IN  /\ consumed' = Append(consumed, id)
           /\ date' = st.date
           /\ meta_data' = st.meta_data
           /\ data' = st.data
           /\ pc' = IF st.err = "none" THEN "reading" ELSE "raised"
           /\ err' = IF st.err = "none" THEN NoError ELSE Error(st.err, "parse_igc")
    /\ UNCHANGED <<file, flight, units, args, idx, fs, f, stdout, color_in, ind_color,
                   dist_in, best_name>>

\* The file is exhausted: zip(*data), and parse_igc returns.
EndOfFile ==
    /\ pc = "reading"
    /\ consumed = file
    /\ LET r == ParseEnd([date |-> date, meta_data |-> meta_data,
                          data |-> data, err |-> "none"])
       IN  /\ flight' = r.flight
           /\ pc' = IF r.err = "none" THEN "parsed" ELSE "raised"
           /\ err' = IF r.err = "none" THEN NoError ELSE Error(r.err, "parse_igc")
    /\ UNCHANGED <<file, consumed, date, data, meta_data, units, args, idx, fs, f, stdout,
                   color_in, ind_color, dist_in, best_name>>

\* process_data on what parse_igc returned, for some unit configuration.
ProcessParsed ==
    /\ pc = "parsed"
    /\ \E u \in UnitChoices :
         LET r == process_data(flight, meta_data, u)
         IN  /\ flight' = r.flight
             /\ meta_data' = r.meta_data
             /\ units' = r.units
             /\ pc' = IF r.err = "none" THEN "processed" ELSE "raised"
             /\ err' = IF r.err = "none" THEN NoError ELSE Error(r.err, "process_data")
    /\ UNCHANGED <<file, consumed, date, data, args, idx, fs, f, stdout, color_in,
                   ind_color, dist_in, best_name>>

NextParse == ReadLine \/ EndOfFile \/ ProcessParsed

SpecParse == InitParse /\ [][NextParse]_vars

(***************************************************************************)
(* The colour bucketing of _write_kml_timeseries on its own: a value and a *)
(* colour-map configuration are drawn, and ind_color is computed.          *)
(***************************************************************************)
\* The largest value drawn, in steps of half a display unit.
MaxColourSteps == 130

\* Values in hundredths: every half unit up to the bound, and two far out.
ColourValues == {50 * k : k \in -MaxColourSteps..MaxColourSteps} \cup {-10000, 10000}

\* <<cmin, cmax, n_colors>>: the two configurations write_kml uses, and others.
ColourConfigs == {<<-4, 4, 9>>, <<0, 60, 9>>, <<0, 1, 1>>, <<-3, 2, 5>>, <<0, 7, 3>>}

InitColour ==
    /\ color_in \in [v : ColourValues, cfg : ColourConfigs]
    /\ ind_color = -1
    /\ pc = "start"
    /\ err = NoError
    /\ file = <<>> /\ consumed = <<>> /\ date = Unbound /\ data = <<>> /\ meta_data = EmptyMeta
    /\ flight = None /\ units = None
    /\ args = None /\ idx = 0 /\ fs = <<>> /\ f = None /\ stdout = <<>>
    /\ dist_in = None /\ best_name = ""

ComputeColour ==
    /\ pc = "start"
    /\ ind_color' = ColorIndex(color_in.v, color_in.cfg[1], color_in.cfg[2],
                               color_in.cfg[3])
    /\ pc' = "done"
    /\ UNCHANGED <<file, consumed, date, data, meta_data, flight, units, err, args, idx, fs,
                   f, stdout, color_in, dist_in, best_name>>

NextColour == ComputeColour

SpecColour == InitColour /\ [][NextColour]_vars

(***************************************************************************)
(* get_nearest_launch_site_name on its own.  The coordinate given is       *)
(* represented by the distances get_distance returns for it, one per site, *)
(* drawn from values on both sides of the threshold.                       *)
(***************************************************************************)
SiteNames == {LAUNCH_SITES[k] : k \in 1..Len(LAUNCH_SITES)}

DistanceValues == {5000, 9999, 10000, 20000}

InitSite ==
    /\ dist_in \in [SiteNames -> DistanceValues]
    /\ best_name = ""
    /\ pc = "start"
    /\ err = NoError
    /\ file = <<>> /\ consumed = <<>> /\ date = Unbound /\ data = <<>> /\ meta_data = EmptyMeta
    /\ flight = None /\ units = None
    /\ args = None /\ idx = 0 /\ fs = <<>> /\ f = None /\ stdout = <<>>
    /\ color_in = None /\ ind_color = 0

Classify ==
    /\ pc = "start"
    /\ best_name' = NearestByDistance(dist_in)
    /\ pc' = "done"
    /\ UNCHANGED <<file, consumed, date, data, meta_data, flight, units, err, args, idx, fs,
                   f, stdout, color_in, ind_color, dist_in>>

NextSite == Classify

SpecSite == InitSite /\ [][NextSite]_vars

(***************************************************************************)
(* What the lines of the model say, read off their text by hand: the       *)
(* reference the parser's results are compared with.                       *)
(***************************************************************************)
FixIds == {"Fix1", "Fix2", "Fix3", "FixBad", "FixShort", "FixSW", "FixNE"}
DateIds == {"Date1", "Date2", "BadDate"}
TZIds == {"TZ", "TZNeg"}

\* 2021-06-01 is day 18779, 2021-06-02 day 18780; 31 February is no date.
RefDate(id) ==
    CASE id = "Date1" -> 18779 * 86400
      [] id = "Date2" -> 18780 * 86400
\* +2.5 h and -1 h.
RefOffset(id) == IF id = "TZ" THEN 9000 ELSE -3600
RefTimeOfDay(id) ==
    CASE id = "Fix1" -> 10 * 3600
      [] id \in {"Fix2", "Fix3"} -> 10 * 3600 + 10
      [] id = "FixBad" -> 10 * 3600 + 20
      [] id = "FixSW" -> 12 * 3600
      [] id = "FixNE" -> 12 * 3600 + 5

Positions(ids) ==
    SelectSeq([i \in 1..Len(file) |-> i], LAMBDA i : file[i] \in ids)
FixPositions == Positions(FixIds)
DatePositions == Positions(DateIds)
TZPositions == Positions(TZIds)

\* A fix record comes before the first date record of the file.
FixBeforeDate ==
    /\ FixPositions # <<>>
    /\ (DatePositions = <<>> \/ FixPositions[1] < DatePositions[1])

\* C3 as claimed: when a fix record comes before the first date record,
\* parse_igc raises at that fix record (and so returns nothing).
C3_FailsAtTheFixRecord ==
    FixBeforeDate =>
        /\ pc \notin {"parsed", "processed"}
        /\ pc = "raised" => Len(consumed) = FixPositions[1]

\* C3 as amended: when a fix record comes before the first date record,
\* parse_igc raises UnboundLocalError at that fix record, or at a timezone
\* record before it, decodes no fix and returns nothing; so a fix that has
\* been decoded had a date record before it.
C3_FailsAtOrBeforeTheFixRecord ==
    LET stop == IF TZPositions # <<>> /\ TZPositions[1] < FixPositions[1]
                THEN TZPositions[1] ELSE FixPositions[1]
    IN  /\ FixBeforeDate =>
              /\ pc \in {"reading", "raised"}
              /\ Len(consumed) <= stop
              /\ pc = "raised" => /\ Len(consumed) = stop
                                  /\ err = Error("UnboundLocalError", "parse_igc")
              /\ data = <<>>
              /\ flight = None
        /\ data # <<>> => ~FixBeforeDate

C3_Witness ==
    /\ FixBeforeDate
    /\ Len(file) >= 3
    /\ FixPositions[1] = 2
    /\ TZPositions = <<>>
    /\ DatePositions # <<>>
    /\ pc = "raised"

\* C4: in a file with one date record and one timezone record, a fix read
\* before the timezone record has the timestamp date + time of day, a fix
\* read after it date + offset + time of day; this holds of every sample at
\* every point of the parse, so reading the timezone record leaves the
\* samples already produced as they were.
ExpectedTimestamp(p) ==
    RefDate(file[DatePositions[1]])
    + (IF TZPositions[1] < p THEN RefOffset(file[TZPositions[1]]) ELSE 0)
    + RefTimeOfDay(file[p])

C4_TimezoneAppliesToLaterFixes ==
    (Len(DatePositions) = 1 /\ Len(TZPositions) = 1) =>
        /\ \A k \in 1..Len(data) : data[k][1] = ExpectedTimestamp(FixPositions[k])
        /\ pc \in {"parsed", "processed"} =>
              /\ Len(flight.t) = Len(FixPositions)
              /\ \A k \in 1..Len(flight.t) :
                    flight.t[k] = ExpectedTimestamp(FixPositions[k])

C4_Witness ==
    /\ Len(DatePositions) = 1 /\ Len(TZPositions) = 1
    /\ pc = "parsed"
    /\ \E k \in 1..Len(flight.t) : FixPositions[k] < TZPositions[1]
    /\ \E k \in 1..Len(flight.t) : FixPositions[k] > TZPositions[1]

\* C10: after process_data, x, y, speed and vario have as many entries as
\* t, lat, lon and alt (one per fix record of the file, at least one), and
\* the last speed and the last vario are 0 whatever the units.
C10_DerivedLengthsAndLastZero ==
    pc = "processed" =>
        LET n == Len(FixPositions)
        IN  /\ n >= 1
            /\ \A s \in {flight.t, flight.lat, flight.lon, flight.alt,
                         flight.x, flight.y, flight.speed, flight.vario} : Len(s) = n
            /\ flight.speed[n] = 0
            /\ flight.vario[n] = 0

C10_Witness ==
    /\ pc = "processed"
    /\ Len(flight.t) >= 3
    /\ units.x # "kmh"
    /\ flight.speed[1] # 0
    /\ flight.vario[2] # 0

\* C8: the colour index is clamp(round(N*(v-min)/(max-min)), 0, N-1), round
\* being the nearest integer with halves upward: it lies in 0..N-1, is 0 for
\* every v <= min and N-1 for every v >= max; and with min=-4, max=4, N=9 the
\* values -4, 4, 100, -100 give 0, 8, 8, 0.
Clamp(r, lo, hi) == IF r < lo THEN lo ELSE IF r > hi THEN hi ELSE r

\* The integer r nearest to num/den (den > 0): num/den - 1/2 < r <= num/den + 1/2.
Nearest(num, den) ==
    CHOOSE r \in -3000..3000 : 2 * num - den < 2 * den * r /\ 2 * den * r <= 2 * num + den

C8_ColourIndexIsClampedRound ==
    pc = "done" =>
        LET v == color_in.v
            cmin == color_in.cfg[1]
            cmax == color_in.cfg[2]
            n == color_in.cfg[3]
        IN  /\ ind_color = Clamp(Nearest(n * (v - 100 * cmin), 100 * (cmax - cmin)), 0, n - 1)
            /\ ind_color \in 0..(n - 1)
            /\ v <= 100 * cmin => ind_color = 0
            /\ v >= 100 * cmax => ind_color = n - 1
            /\ color_in.cfg = <<-4, 4, 9>> =>
                  /\ v = -400 => ind_color = 0
                  /\ v = 400 => ind_color = 8
                  /\ v = 10000 => ind_color = 8
                  /\ v = -10000 => ind_color = 0

C8_Witness ==
    /\ pc = "done"
    /\ color_in.cfg = <<-4, 4, 9>>
    /\ color_in.v = -350
    /\ ind_color = 1

\* C9: the name returned is that of the site at the smallest distance when
\* that distance is below 10000 m, the first such site in the order of the
\* gazetteer when several are at it, and "Unknown" when no site is below
\* 10000 m.
C9_NearestSiteBelowThreshold ==
    pc = "done" =>
        LET least == CHOOSE m \in DistanceValues :
                        /\ \E s \in SiteNames : dist_in[s] = m
                        /\ \A s \in SiteNames : dist_in[s] >= m
            first == CHOOSE k \in 1..Len(LAUNCH_SITES) :
                        /\ dist_in[LAUNCH_SITES[k]] = least
                        /\ \A j \in 1..(k - 1) : dist_in[LAUNCH_SITES[j]] # least
        IN  best_name = IF least < 10000 THEN LAUNCH_SITES[first] ELSE "Unknown"

C9_Witness ==
    /\ pc = "done"
    /\ dist_in["Sonnwendstein"] = 10000
    /\ dist_in["Hohe Wand"] = 9999
    /\ dist_in["Invermere"] = 20000
    /\ dist_in["York Soaring"] = 9999
    /\ best_name = "Hohe Wand"

(***************************************************************************)
(* The batch run.                                                          *)
(***************************************************************************)
\* The tokens the unit table knows, with the factor published for each.
PublishedFactor(u) ==
    CASE u \in {"kmh", "km/h"} -> "3.6"
      [] u \in {"kts", "knots"} -> "1.9438444924406"
      [] u \in {"mph", "miles/h"} -> "2.2369362920544"
      [] u \in {"m/s", "mps", "m", "metres", "meters"} -> "1.0"
      [] u \in {"fpm", "f/m"} -> "196.85039370078738"
      [] u = "feet" -> "3.280839895013123"

RecognizedTokens ==
    {"kmh", "km/h", "kts", "knots", "mph", "miles/h", "m/s", "mps", "m", "metres",
     "meters", "fpm", "f/m", "feet"}

SomeTokenUnknown == \E k \in 1..3 : args.units[k] \notin RecognizedTokens

\* A document is complete when it runs from the preamble to the closing tags.
Complete(chunks) ==
    /\ chunks # <<>>
    /\ chunks[1].tag = "Preamble"
    /\ chunks[Len(chunks)].tag = "Closing"

\* C1: a run never ends on a parse failure with input files left unread.
C1_ParseFailureIsConfined ==
    ~(pc = "aborted" /\ err.in = "parse_igc" /\ idx < Len(args.input))

\* C2: a file this run has written to holds either nothing of the run's
\* output or the complete document.
C2_NoPartialOutput ==
    \A p \in DOMAIN fs :
        (fs[p].owner # 0 /\ fs[p].chunks # <<>>) => Complete(fs[p].chunks)

\* C5: the curtain path of a completely written file holds one coordinate
\* triple per sample, in sample order.
C5_CurtainHoldsEverySample ==
    \A p \in DOMAIN fs :
        (pc = "parse" /\ idx >= 2 /\ fs[p].owner = idx - 1 /\ Complete(fs[p].chunks)) =>
            fs[p].chunks[7].coordinates =
                [i \in 1..n_samples(flight) |-> Coordinate(flight, i)]

\* C6: when the output exists and --force was not given, the step of the
\* guard changes no file, prints the message and goes on to the next input
\* file; write_kml is entered only when the output does not exist or --force
\* was given, and files change only inside write_kml.
C6_OutputGuard ==
    [][ LET output_name == OutputName(args, flight, meta_data)
        IN  /\ (pc = "guard" /\ output_name \in DOMAIN fs /\ ~args.force) =>
                  /\ fs' = fs
                  /\ f' = None
                  /\ stdout' = Append(stdout, <<"Can not save kml file", output_name>>)
                  /\ idx' = idx + 1
                  /\ pc' = "parse"
            /\ (pc = "guard" /\ pc' = "writing") =>
                  (output_name \notin DOMAIN fs \/ args.force)
            /\ fs' # fs => (pc = "writing" \/ pc' = "writing") ]_vars

C6_Witness ==
    /\ pc = "parse"
    /\ idx = 2
    /\ Len(args.input) = 2
    /\ ~args.force
    /\ Len(stdout) = 1
    /\ fs[stdout[1][2]] = OldFile

====
